---------------------------- MODULE Spec2Model ----------------------------
(***************************************************************************)
(* Model of jgoncalocouto/economics_metrics:                               *)
(*   - ecb_suite._normalize_ecb_df, fetch_series_retry,                    *)
(*     hicp_by_sector_long                                                 *)
(*   - economics_metrics.ecb_data / us_data fetch_series_dataframe         *)
(*                                                                         *)
(* Text is a sequence of one-character strings, so that str.replace and    *)
(* numeric / date parsing are computed character by character.  A missing  *)
(* cell (NaN / NaT) is the empty sequence; a parsed number or date is the  *)
(* one-element sequence <<v>>.  Floats are fixed point, in hundredths;     *)
(* a Timestamp is the integer yyyymmdd.                                    *)
(***************************************************************************)
EXTENDS Integers, Sequences, FiniteSets, TLC

VARIABLES
    \* ---- one call of a normalizer (pure functions applied to `raw`)
    net,        \* the transport (_retrieve_series_csv): "ok", or why it fails
    raw,        \* the response: [decodable, pre, cols, rows]
    fn,         \* which function was applied: "none" before the call
    out,        \* its outcome: [kind, series, exc]; a series is a sequence
                \* of entries [date, value], the value <<v>> or NaN
    \* ---- one call of fetch_series_retry
    retries,    \* parameter `retries`
    attempt,    \* loop variable `attempt`
    last_err,   \* local `last_err`
    fpc,        \* position: "idle", "loop", "sleep", "done"
    fres,       \* outcome of the call: [kind, series, exc]
    log,        \* history: per attempt, the response and how the attempt ended
    events,     \* history: "get" per transport call, "sleep" per pause
    \* ---- one call of hicp_by_sector_long
    measure,    \* parameter `measure`
    sectors,    \* parameter `sectors`: the names, in mapping order
    geos,       \* parameter `geos`, in list order
    si, gi,     \* loop positions (outer: sector, inner: geo)
    rows,       \* local `rows`: list of per-pair frames
    tpc,        \* position: "idle", "loop", "fetch", "done"
    tres,       \* outcome of the call: [kind, columns, table, exc]
    fetched,    \* history: [sector, geo, series] per fetch that returned
    \* ---- one call of pivots_from_hicp_long (with `sectors` and `geos`)
    df_long,    \* parameter `df_long`: rows [date, sector, geo, value]
    df_country, \* first table returned: [kind, columns, rows]
    df_sector,  \* second table returned: [kind, columns, rows]
    \* ---- one call of a collector: download_euribor_all, fetch_exr_daily
    \*      or hicp_all_items_by_country (the last one with `measure`)
    collector,  \* which of the three functions is called
    series_map, \* the friendly names (codes, geos) in the order of the input
    ci,         \* loop position
    ccols,      \* local `cols` (`series`): [name, series] per fetch that returned
    called,     \* history: the names fetch_series_retry was called for
    cpc,        \* position: "idle", "loop", "fetch", "done"
    cres,       \* outcome of the call: [kind, columns, rows, exc]
    \* ---- one run of ecb_suite as a script
    run,        \* args.run
    fred_env,   \* "ok", or what _ensure_fred lacks
    mpc,        \* position: 0 before the first block, 1..6 the block of the
                \* artifact, 7 after the run
    mstep,      \* step within the block: "build", "pivot", "write", "write2"
    nf,         \* fetches made for the artifact of the block
    written,    \* the files written so far
    csv,        \* what was written: [file, floats, dates], the cell texts of the file
    mlog,       \* history: [op, art] per fetch and per file written
    merr,       \* the exception that ended the run: [failed, at, exc]
    \* ---- one call of download_series_collection (ecb_data or us_data)
    dmodule,      \* the module whose function is called
    series_names, \* parameter `series_names`
    overwrite,    \* parameter `overwrite`
    ni,           \* loop position in `names`
    files,        \* the files in output_dir
    content,      \* what each file holds: pairs <<file, "old">> (the bytes it had
                  \* before the call) or <<file, "new">> (bytes written by the call)
    calls,        \* history: the names _retrieve_series_csv was called for
    writes,       \* history: the names a file was written for
    downloaded,   \* local `downloaded`
    dpc,          \* position: "idle", "loop", "retrieve", "write", "done"
    dres          \* outcome of the call: [kind, exc]

normVars  == <<net, raw, fn, out>>
retryVars == <<retries, attempt, last_err, fpc, fres, log, events>>
tidyVars  == <<measure, sectors, geos, si, gi, rows, tpc, tres, fetched>>
pivotVars == <<df_long, df_country, df_sector>>
collectVars == <<collector, series_map, ci, ccols, called, cpc, cres>>
mainVars  == <<run, fred_env, mpc, mstep, nf, written, csv, mlog, merr>>
dlVars    == <<dmodule, series_names, overwrite, ni, files, content, calls, writes,
               downloaded, dpc, dres>>
restVars  == <<pivotVars, collectVars, mainVars, dlVars>>
vars      == <<normVars, retryVars, tidyVars, restVars>>

-----------------------------------------------------------------------------
(* Bounds of the model *)

MaxRows    == 3     \* rows of a response drawn in InitNormalize
MaxRetries == 3     \* largest retry budget drawn in InitRetry

(* Program constants *)

DefaultRetries == 3     \* fetch_series_retry(..., retries: int = 3, ...)

-----------------------------------------------------------------------------
(* Text *)

NaN == <<>>
IsNa(c) == c = <<>>

Digits == {"0", "1", "2", "3", "4", "5", "6", "7", "8", "9"}

DigitVal(c) ==
    CASE c = "0" -> 0 [] c = "1" -> 1 [] c = "2" -> 2 [] c = "3" -> 3
      [] c = "4" -> 4 [] c = "5" -> 5 [] c = "6" -> 6 [] c = "7" -> 7
      [] c = "8" -> 8 [] c = "9" -> 9

IsDigits(s) == \A i \in 1..Len(s) : s[i] \in Digits

RECURSIVE IntOf(_)
IntOf(s) ==
    IF s = <<>> THEN 0
    ELSE IntOf(SubSeq(s, 1, Len(s) - 1)) * 10 + DigitVal(s[Len(s)])

\* str.replace(a, b) for one-character a and b
StrReplace(s, a, b) == [i \in 1..Len(s) |-> IF s[i] = a THEN b ELSE s[i]]

\* digits [ "." digits ], at least one digit; the value in hundredths
ParseUnsigned(s) ==
    LET dots == {i \in 1..Len(s) : s[i] = "."}
    IN  IF dots = {}
        THEN IF Len(s) > 0 /\ IsDigits(s) THEN <<IntOf(s) * 100>> ELSE NaN
        ELSE IF Cardinality(dots) > 1 THEN NaN
        ELSE LET d  == CHOOSE i \in dots : TRUE
                 ip == SubSeq(s, 1, d - 1)
                 fp == SubSeq(s, d + 1, Len(s))
                 f2 == SubSeq(fp \o <<"0", "0">>, 1, 2)
             IN  IF IsDigits(ip) /\ IsDigits(fp) /\ Len(ip) + Len(fp) > 0
                 THEN <<IntOf(ip) * 100 + IntOf(f2)>>
                 ELSE NaN

\* pd.to_numeric(cell, errors="coerce") on one cell
ToNumeric(s) ==
    IF Len(s) > 0 /\ s[1] \in {"-", "+"}
    THEN LET u == ParseUnsigned(Tail(s))
         IN  IF IsNa(u) THEN NaN
             ELSE IF s[1] = "-" THEN <<0 - u[1]>> ELSE u
    ELSE ParseUnsigned(s)

\* pd.to_datetime(cell, errors="coerce") on one cell: YYYY-MM or YYYY-MM-DD
ToDatetime(s) ==
    LET ymOk == /\ Len(s) \in {7, 10}
                /\ s[5] = "-"
                /\ IsDigits(SubSeq(s, 1, 4))
                /\ IsDigits(SubSeq(s, 6, 7))
                /\ IntOf(SubSeq(s, 6, 7)) \in 1..12
        dOk  == \/ Len(s) = 7
                \/ /\ s[8] = "-"
                   /\ IsDigits(SubSeq(s, 9, 10))
                   /\ IntOf(SubSeq(s, 9, 10)) \in 1..28
        day  == IF Len(s) = 7 THEN 1 ELSE IntOf(SubSeq(s, 9, 10))
    IN  IF ymOk /\ dOk
        THEN <<IntOf(SubSeq(s, 1, 4)) * 10000 + IntOf(SubSeq(s, 6, 7)) * 100 + day>>
        ELSE NaN

-----------------------------------------------------------------------------
(* Column names: str.upper and str.strip on the names that occur *)

Upper(n) ==
    CASE n = "time_period"      -> "TIME_PERIOD"
      [] n = " time_period"     -> " TIME_PERIOD"
      [] n = "obs_value"        -> "OBS_VALUE"
      [] n = "date"             -> "DATE"
      [] n = "observation_date" -> "OBSERVATION_DATE"
      [] n = "fedfunds"         -> "FEDFUNDS"
      [] n = "value"            -> "VALUE"
      [] n = "Data Source in SDW: FM.M.U2.EUR.RT.MM.EUR.IBOR.3M"
                                -> "DATA SOURCE IN SDW: FM.M.U2.EUR.RT.MM.EUR.IBOR.3M"
      [] n = "Frequency: Monthly" -> "FREQUENCY: MONTHLY"
      [] OTHER                  -> n

Strip(n) ==
    CASE n = " time_period" -> "time_period"
      [] n = " TIME_PERIOD" -> "TIME_PERIOD"
      [] OTHER              -> n

\* positions of the columns called `name`
ColsNamed(cols, name) == {i \in 1..Len(cols) : cols[i] = name}

\* df.rename(columns={old: new})
RenameCols(cols, old, new) ==
    [i \in 1..Len(cols) |-> IF cols[i] = old THEN new ELSE cols[i]]

-----------------------------------------------------------------------------
(* Outcomes *)

NoSeries == <<>>
Return(s) == [kind |-> "return", series |-> s, exc |-> "none"]
Raise(e)  == [kind |-> "raise", series |-> NoSeries, exc |-> e]
NotRun    == [kind |-> "none", series |-> NoSeries, exc |-> "none"]

\* an exception raised inside fetch_series_retry: its type and the attempt
\* that raised it; Python's None is NoError
Exc(type, at) == [type |-> type, at |-> at]
NoError == Exc("None", 0)

\* sort_index() left out: the entries in the order they came
KeepOrder(s) == {s}

\* the orderings of the entries of `s` that are ascending in `date`:
\* what sort_index() may return (ties in no specified order)
SortedByDate(s) ==
    LET n     == Len(s)
        perms == {p \in [1..n -> 1..n] : \A i, j \in 1..n : i # j => p[i] # p[j]}
    IN  {[i \in 1..n |-> s[p[i]]] : p \in
            {q \in perms : \A i \in 1..n-1 : s[q[i]].date <= s[q[i+1]].date}}

\* the subsequence of `s` at the positions in `keep`, in order
RECURSIVE Select(_, _)
Select(s, keep) ==
    IF s = <<>> THEN <<>>
    ELSE LET rest == Select(SubSeq(s, 1, Len(s) - 1), keep)
         IN  IF Len(s) \in keep THEN Append(rest, s[Len(s)]) ELSE rest

-----------------------------------------------------------------------------
(* Raw responses.  A response is [decodable, pre, cols, rows]: whether its *)
(* bytes decode as UTF-8, the lines in front of the table (each a sequence *)
(* of comma-separated fields), the header names, and one sequence of cells *)
(* per data row, aligned with the header.  The header names of a response  *)
(* are pairwise distinct, also when case and padding are ignored.          *)

Frame(cols, rws) == [decodable |-> TRUE, pre |-> <<>>, cols |-> cols, rows |-> rws]

\* the response r behind the preamble lines p
WithPreamble(p, r) ==
    [decodable |-> r.decodable, pre |-> p, cols |-> r.cols, rows |-> r.rows]
NoFrame == Frame(<<>>, <<>>)

\* ecb_suite.py ------------------------------------------------------------

\* cols = {c.upper(): c for c in df.columns}; cols.get(key.upper(), key)
ColsGet(cols, key) ==
    LET hits == {i \in 1..Len(cols) : Upper(cols[i]) = Upper(key)}
    IN  IF hits = {} THEN key
        ELSE cols[CHOOSE i \in hits : \A j \in hits : j <= i]

\* line 85: pd.to_numeric(s.astype(str).str.replace(",", "."), errors="coerce")
CoerceValue(cell) == ToNumeric(StrReplace(cell, ",", "."))

\* the outcomes of _normalize_ecb_df(df): one per tie order of sort_index
normalize_ecb_df(df) ==
    LET date_col == ColsGet(df.cols, "TIME_PERIOD")
        val_col  == ColsGet(df.cols, "OBS_VALUE")
        cols     == [i \in 1..Len(df.cols) |->
                        IF df.cols[i] = date_col THEN "date"
                        ELSE IF df.cols[i] = val_col THEN "value"
                        ELSE df.cols[i]]
        dcs      == ColsNamed(cols, "date")
        vcs      == ColsNamed(cols, "value")
    IN  \* df["date"], df[["date", "value"]] on a frame without the column
        IF dcs = {} \/ vcs = {} THEN {Raise("KeyError")}
        ELSE
        LET dc   == CHOOSE i \in dcs : TRUE
            vc   == CHOOSE i \in vcs : TRUE
            \* line 78: df["date"] = pd.to_datetime(df["date"], errors="coerce")
            cand == [i \in 1..Len(df.rows) |->
                        [date |-> ToDatetime(df.rows[i][dc]), value |-> df.rows[i][vc]]]
            \* line 80: dropna(subset=["date", "value"])
            kept == Select(cand, {i \in 1..Len(cand) :
                                    ~IsNa(cand[i].date) /\ ~IsNa(cand[i].value)})
            idx  == [i \in 1..Len(kept) |->
                        [date |-> kept[i].date[1], value |-> kept[i].value]]
        IN  \* lines 81-82: set_index("date").sort_index()["value"]
            \* line 85: coerce to float, dropna
            { Return(LET num == [i \in 1..Len(s) |->
                                    [date |-> s[i].date, value |-> CoerceValue(s[i].value)]]
                     IN  Select(num, {i \in 1..Len(num) : ~IsNa(num[i].value)}))
              : s \in SortedByDate(idx) }

\* economics_metrics/ecb_data.py ---------------------------------------------

\* the lines that hold names: the preamble, then the header of the table
\* (no cell of a data row is the text TIME_PERIOD)
NameLines(r) == r.pre \o <<r.cols>>

\* lines 90-96: the first line with a field whose upper-case text is
\* TIME_PERIOD (fields are not stripped), 0 when there is none
HeaderLine(r) ==
    LET ls   == NameLines(r)
        hits == {k \in 1..Len(ls) : \E i \in 1..Len(ls[k]) : Upper(ls[k][i]) = "TIME_PERIOD"}
    IN  IF hits = {} THEN 0 ELSE CHOOSE k \in hits : \A j \in hits : k <= j

\* _strip_metadata_lines (lines 84-105): the outcome of the call
strip_metadata_lines(r) ==
    IF ~r.decodable THEN Raise("UnicodeDecodeError")
    ELSE IF HeaderLine(r) = 0 THEN Raise("DownloadError")
    ELSE Return(NoSeries)

\* a line of names read as a data row: each field is a cell of text
TextCells(line) == [i \in 1..Len(line) |-> <<line[i]>>]

\* lines 101, 116-119: the table pd.read_csv makes of the lines from line k
\* on: line k is the header, blank lines are skipped, a row with fewer
\* fields than the header is filled up with NaN (no drawn response has a
\* row with more fields than its header)
ReadFrom(r, k) ==
    LET ls    == NameLines(r)
        later == [j \in 1..(Len(ls) - k) |-> TextCells(ls[k + j])] \o r.rows
        data  == SelectSeq(later, LAMBDA row : row # <<>>)
        width == Len(ls[k])
    IN  Frame(ls[k],
              [i \in 1..Len(data) |->
                 [c \in 1..width |-> IF c <= Len(data[i]) THEN data[i][c] ELSE NaN]])

\* the first column whose stripped upper-case name is `key`, 0 when none
FindColumn(cols, key) ==
    LET hits == {i \in 1..Len(cols) : Upper(Strip(cols[i])) = Upper(key)}
    IN  IF hits = {} THEN 0 ELSE CHOOSE i \in hits : \A j \in hits : i <= j

\* frame.dropna(subset=[date]).set_index(date).sort_index()[[value]], with
\* the date column parsed and the value column passed through to_numeric
DatedFrame(rws, dc, vc) ==
    LET cand == [i \in 1..Len(rws) |->
                    [date |-> ToDatetime(rws[i][dc]), value |-> ToNumeric(rws[i][vc])]]
        kept == Select(cand, {i \in 1..Len(cand) : ~IsNa(cand[i].date)})
        idx  == [i \in 1..Len(kept) |->
                    [date |-> kept[i].date[1], value |-> kept[i].value]]
    IN  {Return(s) : s \in SortedByDate(idx)}

\* the isna().all() check left out
NoDateCheck(rws, dc) == FALSE

AllDatesNa(rws, dc) == \A i \in 1..Len(rws) : IsNa(ToDatetime(rws[i][dc]))

\* the outcomes of ecb_data.fetch_series_dataframe for the response r
\* (value_column is the default, OBS_VALUE)
ecb_fetch_series_dataframe(r) ==
    LET cleaned == strip_metadata_lines(r)
    IN  IF cleaned.kind = "raise" THEN {cleaned}
        ELSE
        LET frame == ReadFrom(r, HeaderLine(r))
            tcol  == FindColumn(frame.cols, "TIME_PERIOD")
            cols1 == IF tcol = 0 THEN frame.cols
                     ELSE RenameCols(frame.cols, frame.cols[tcol], "TIME_PERIOD")
            vcol  == FindColumn(cols1, "OBS_VALUE")
        IN  IF tcol = 0 THEN {Raise("DownloadError")}
            ELSE IF vcol = 0 THEN {Raise("DownloadError")}
            ELSE IF AllDatesNa(frame.rows, tcol) THEN {Raise("DownloadError")}
            ELSE DatedFrame(frame.rows, tcol, vcol)

\* economics_metrics/us_data.py ----------------------------------------------

\* lines 156-163: the first column equal to series_id, or equal to it after
\* strip().upper(); 0 when none
FindSeriesColumn(cols, series_id) ==
    LET hits == {i \in 1..Len(cols) :
                    cols[i] = series_id \/ Upper(Strip(cols[i])) = Upper(series_id)}
    IN  IF hits = {} THEN 0 ELSE CHOOSE i \in hits : \A j \in hits : i <= j

\* the outcomes of us_data.fetch_series_dataframe for the response r and
\* the series FEDFUNDS
us_fetch_series_dataframe(r) ==
    LET dcol  == FindColumn(r.cols, "DATE")
        cols1 == IF dcol = 0 THEN r.cols ELSE RenameCols(r.cols, r.cols[dcol], "DATE")
        scol  == FindSeriesColumn(cols1, "FEDFUNDS")
    IN  \* lines 131-138: read_csv errors (undecodable bytes, no columns)
        IF ~r.decodable \/ r.cols = <<>> THEN {Raise("DownloadError")}
        ELSE IF dcol = 0 THEN {Raise("DownloadError")}
        ELSE IF AllDatesNa(r.rows, dcol) THEN {Raise("DownloadError")}
        ELSE IF scol = 0 THEN {Raise("DownloadError")}
        ELSE DatedFrame(r.rows, dcol, scol)

-----------------------------------------------------------------------------
(* The responses drawn for the normalizers *)

D2024_01 == <<"2", "0", "2", "4", "-", "0", "1">>
D2024_02 == <<"2", "0", "2", "4", "-", "0", "2">>
BadDate  == <<"n", "/", "a">>

DateCells  == {D2024_01, D2024_02, BadDate}
\* a decimal comma, a decimal point with a sign, text that is no number, and
\* an empty field
ValueCells == { <<"1", ",", "5">>, <<"-", "0", ".", "4", "1">>, <<"x">>, NaN }

DateNames == {"TIME_PERIOD", "DATE", "OBSERVATION_DATE"}

Headers ==
    { <<"TIME_PERIOD", "OBS_VALUE">>, <<"time_period", "obs_value">>,
      <<" TIME_PERIOD", "OBS_VALUE">>, <<"TIME_PERIOD", "OTHER">>,
      <<"DATE", "FEDFUNDS">>, <<"date", "fedfunds">>,
      <<"observation_date", "FEDFUNDS">>, <<"DATE", "OTHER">>,
      <<"TIME_PERIOD">>, <<"OBS_VALUE">>, <<"FEDFUNDS">>, <<>> }

CellDomain(name) ==
    IF Upper(Strip(name)) \in DateNames THEN DateCells ELSE ValueCells

\* the rows a response with header h may hold: one cell per column
RECURSIVE RowSet(_)
RowSet(h) ==
    IF h = <<>> THEN {<<>>}
    ELSE {Append(r, c) : r \in RowSet(SubSeq(h, 1, Len(h) - 1)),
                         c \in CellDomain(h[Len(h)])}

Undecodable == [decodable |-> FALSE, pre |-> <<>>, cols |-> <<>>, rows |-> <<>>]

\* the lines an ECB quickview export may put in front of the table
Preambles ==
    { <<>>,
      << <<"Data Source in SDW: FM.M.U2.EUR.RT.MM.EUR.IBOR.3M">> >>,
      << <<"Data Source in SDW: FM.M.U2.EUR.RT.MM.EUR.IBOR.3M">>,
         <<"Frequency: Monthly">> >> }

\* how _retrieve_series_csv may end: the bytes of the response, a
\* requests.RequestException, a status other than 200
TransportOutcomes == {"ok", "RequestException", "BadStatus"}

-----------------------------------------------------------------------------
(* Idle values of the groups of variables *)

NormIdle ==
    /\ net = "ok"
    /\ raw = NoFrame
    /\ fn = "none"
    /\ out = NotRun

RetryIdle ==
    /\ retries = DefaultRetries
    /\ attempt = 1
    /\ last_err = NoError
    /\ fpc = "idle"
    /\ fres = [kind |-> "none", series |-> NoSeries, exc |-> NoError]
    /\ log = <<>>
    /\ events = <<>>

TidyIdle ==
    /\ measure = "ANR"
    /\ sectors = <<>>
    /\ geos = <<>>
    /\ si = 1
    /\ gi = 1
    /\ rows = <<>>
    /\ tpc = "idle"
    /\ tres = [kind |-> "none", columns |-> <<>>, table |-> <<>>, exc |-> NoError]
    /\ fetched = <<>>

NoTable == [kind |-> "none", columns |-> <<>>, rows |-> <<>>]

PivotIdle ==
    /\ df_long = <<>>
    /\ df_country = NoTable
    /\ df_sector = NoTable

NoWide == [kind |-> "none", columns |-> <<>>, rows |-> <<>>, exc |-> NoError]

CollectIdle ==
    /\ collector = "none"
    /\ series_map = <<>>
    /\ ci = 1
    /\ ccols = <<>>
    /\ called = <<>>
    /\ cpc = "idle"
    /\ cres = NoWide

NoMainError == [failed |-> FALSE, at |-> 0, exc |-> "None"]

MainIdle ==
    /\ run = "none"
    /\ fred_env = "ok"
    /\ mpc = 7
    /\ mstep = "build"
    /\ nf = 0
    /\ written = {}
    /\ csv = {}
    /\ mlog = <<>>
    /\ merr = NoMainError

DownloadIdle ==
    /\ dmodule = "none"
    /\ series_names = <<>>
    /\ overwrite = TRUE
    /\ ni = 1
    /\ files = {}
    /\ content = {}
    /\ calls = <<>>
    /\ writes = <<>>
    /\ downloaded = <<>>
    /\ dpc = "idle"
    /\ dres = [kind |-> "none", exc |-> "None"]

RestIdle ==
    /\ PivotIdle
    /\ CollectIdle
    /\ MainIdle
    /\ DownloadIdle

-----------------------------------------------------------------------------
(* SpecNormalize: each normalizer applied to a drawn response *)

InitNormalize ==
    /\ net \in TransportOutcomes
    /\ IF net # "ok" THEN raw = NoFrame
       ELSE \/ \E p \in Preambles, h \in Headers :
                 \E n \in 0..(MaxRows - Len(p)) :
                    \E rws \in [1..n -> RowSet(h)] : raw = WithPreamble(p, Frame(h, rws))
            \/ raw = Undecodable
    /\ fn = "none"
    /\ out = NotRun
    /\ RetryIdle
    /\ TidyIdle
    /\ RestIdle

\* s = _normalize_ecb_df(raw): the argument is a DataFrame, which has no
\* transport, no bytes to decode and no preamble
NormalizeEcbDf ==
    /\ fn = "none"
    /\ net = "ok"
    /\ raw.decodable
    /\ raw.pre = <<>>
    /\ \E o \in normalize_ecb_df(raw) : out' = o
    /\ fn' = "normalize_ecb_df"
    /\ UNCHANGED <<net, raw, retryVars, tidyVars, restVars>>

\* frame = ecb_data.fetch_series_dataframe(series): line 113, the transport
\* raises DownloadError (lines 73-79) or returns raw; then lines 114-163
EcbFetchSeriesDataframe ==
    /\ fn = "none"
    /\ IF net # "ok" THEN out' = Raise("DownloadError")
       ELSE \E o \in ecb_fetch_series_dataframe(raw) : out' = o
    /\ fn' = "ecb_data.fetch_series_dataframe"
    /\ UNCHANGED <<net, raw, retryVars, tidyVars, restVars>>

\* frame = us_data.fetch_series_dataframe(series): line 129, the transport
\* raises DownloadError (lines 65-71) or returns raw, a FRED CSV without
\* preamble; then lines 131-176
UsFetchSeriesDataframe ==
    /\ fn = "none"
    /\ raw.pre = <<>>
    /\ IF net # "ok" THEN out' = Raise("DownloadError")
       ELSE \E o \in us_fetch_series_dataframe(raw) : out' = o
    /\ fn' = "us_data.fetch_series_dataframe"
    /\ UNCHANGED <<net, raw, retryVars, tidyVars, restVars>>

NextNormalize ==
    \/ NormalizeEcbDf
    \/ EcbFetchSeriesDataframe
    \/ UsFetchSeriesDataframe

SpecNormalize == InitNormalize /\ [][NextNormalize]_vars

-----------------------------------------------------------------------------
(* fetch_series_retry (ecb_suite.py lines 90-107) *)

TransportErrors == {"ConnectionError", "Timeout"}

\* what ecbdata.get_series may return
TwoRows == Frame(<<"TIME_PERIOD", "OBS_VALUE">>,
                 << <<D2024_02, <<"1", ".", "5">>>>,
                    <<D2024_01, <<"-", "0", ".", "4", "1">>>> >>)
OneRow  == Frame(<<"TIME_PERIOD", "OBS_VALUE">>, << <<D2024_01, <<"1", ",", "5">>>> >>)
Repeated == Frame(<<"TIME_PERIOD", "OBS_VALUE">>,
                  << <<D2024_01, <<"1", ".", "5">>>>,
                     <<D2024_01, <<"-", "0", ".", "4", "1">>>> >>)
NoData  == Frame(<<"TIME_PERIOD", "OBS_VALUE">>, << <<BadDate, <<"x">>>> >>)
NoValueColumn == Frame(<<"TIME_PERIOD", "OTHER">>, << <<D2024_01, <<"1", ".", "5">>>> >>)

TransportResponses == {TwoRows, OneRow, Repeated, NoData, NoValueColumn}

\* the except clause with `attempt <= retries`: a pause after the last attempt
HandlePausesAfterLast(e) ==
    /\ last_err' = Exc(e, attempt)
    /\ fpc' = "sleep"
    /\ fres' = fres

\* lines 101-106: the except clause, for the exception type e
Handle(e) ==
    /\ last_err' = Exc(e, attempt)
    /\ IF attempt < retries
       THEN /\ fpc' = "sleep"
            /\ fres' = fres
       ELSE \* bare `raise`: the exception being handled
            /\ fpc' = "done"
            /\ fres' = [kind |-> "raise", series |-> NoSeries, exc |-> Exc(e, attempt)]

\* line 99 raises: the transport fails
GetSeriesFails ==
    /\ fpc = "loop"
    /\ attempt <= retries
    /\ \E e \in TransportErrors :
        /\ Handle(e)
        /\ log' = Append(log, [transport |-> "raise", normalize |-> "none", exc |-> e,
                                df |-> NoFrame])
    /\ events' = Append(events, "get")
    /\ UNCHANGED <<retries, attempt, normVars, tidyVars, restVars>>

\* line 99 returns a frame; line 100 normalizes it inside the same try
GetSeriesReturns ==
    /\ fpc = "loop"
    /\ attempt <= retries
    /\ \E df \in TransportResponses : \E o \in normalize_ecb_df(df) :
        IF o.kind = "return"
        THEN /\ fres' = [kind |-> "return", series |-> o.series, exc |-> NoError]
             /\ fpc' = "done"
             /\ log' = Append(log, [transport |-> "return", normalize |-> "return",
                                     exc |-> "None", df |-> df])
             /\ UNCHANGED last_err
        ELSE /\ Handle(o.exc)
             /\ log' = Append(log, [transport |-> "return", normalize |-> "raise",
                                     exc |-> o.exc, df |-> df])
    /\ events' = Append(events, "get")
    /\ UNCHANGED <<retries, attempt, normVars, tidyVars, restVars>>

\* line 104: time.sleep(pause_s), then the next iteration
Sleep ==
    /\ fpc = "sleep"
    /\ events' = Append(events, "sleep")
    /\ attempt' = attempt + 1
    /\ fpc' = "loop"
    /\ UNCHANGED <<retries, last_err, fres, log, normVars, tidyVars, restVars>>

\* line 107: the loop ended without a return or a raise (range(1, retries + 1)
\* was empty)
LoopExhausted ==
    /\ fpc = "loop"
    /\ attempt > retries
    /\ fres' = [kind |-> "raise", series |-> NoSeries, exc |-> Exc("RuntimeError", 0)]
    /\ fpc' = "done"
    /\ UNCHANGED <<retries, attempt, last_err, log, events, normVars, tidyVars, restVars>>

\* SpecRetry: one call fetch_series_retry(key, retries=r)
InitRetry ==
    /\ retries \in 0..MaxRetries
    /\ attempt = 1
    /\ last_err = NoError
    /\ fpc = "loop"
    /\ fres = [kind |-> "none", series |-> NoSeries, exc |-> NoError]
    /\ log = <<>>
    /\ events = <<>>
    /\ NormIdle
    /\ TidyIdle
    /\ RestIdle

NextRetry ==
    \/ GetSeriesFails
    \/ GetSeriesReturns
    \/ Sleep
    \/ LoopExhausted

SpecRetry == InitRetry /\ [][NextRetry]_vars
SpecRetryFair == SpecRetry /\ WF_vars(NextRetry)

-----------------------------------------------------------------------------
(* hicp_by_sector_long (ecb_suite.py lines 168-189) *)

MEASURE_CHOICES == {"ANR", "INX"}

TidyColumns == <<"date", "sector", "geo", "value">>

\* Python's order on the sector names and geo codes that occur
NameRank(n) ==
    CASE n = "ALL_ITEMS" -> 1
      [] n = "DE"        -> 2
      [] n = "ENERGY"    -> 3
      [] n = "FOOD"      -> 4
      [] n = "FR"        -> 5

\* a <= b in the order of sort_values(["date", "sector", "geo"])
TidyLeq(a, b) ==
    \/ a.date < b.date
    \/ /\ a.date = b.date
       /\ \/ NameRank(a.sector) < NameRank(b.sector)
          \/ /\ a.sector = b.sector
             /\ NameRank(a.geo) <= NameRank(b.geo)

\* x put behind the last row that is <= x: one step of a stable sort
InsertRow(t, x) ==
    LET before == {i \in 1..Len(t) : TidyLeq(t[i], x)}
        k      == IF before = {} THEN 0
                  ELSE CHOOSE i \in before : \A j \in before : j <= i
    IN  SubSeq(t, 1, k) \o <<x>> \o SubSeq(t, k + 1, Len(t))

\* sort_values left out: the rows in the order of concatenation
ConcatOrder(t) == t

\* line 188: out.sort_values(["date", "sector", "geo"]).reset_index(drop=True)
RECURSIVE SortValues(_)
SortValues(t) ==
    IF t = <<>> THEN <<>>
    ELSE InsertRow(SortValues(SubSeq(t, 1, Len(t) - 1)), t[Len(t)])

\* lines 181-184: the series as a frame with its sector and geo
TagFrame(s, sector_name, geo) ==
    [i \in 1..Len(s) |->
        [date |-> s[i].date, sector |-> sector_name, geo |-> geo, value |-> s[i].value]]

\* line 187: pd.concat(rows, ignore_index=True)
RECURSIVE Concat(_)
Concat(frames) ==
    IF frames = <<>> THEN <<>>
    ELSE Concat(SubSeq(frames, 1, Len(frames) - 1)) \o frames[Len(frames)]

TidyReturn(table) ==
    [kind |-> "return", columns |-> TidyColumns, table |-> table, exc |-> NoError]
TidyRaise(e) ==
    [kind |-> "raise", columns |-> <<>>, table |-> <<>>, exc |-> e]

\* an empty series taken as the end of the data: what was kept is dropped
KeepFrameResets(rws, s, sector_name, geo) ==
    IF s = <<>> THEN <<>> ELSE Append(rws, TagFrame(s, sector_name, geo))

\* lines 179-184: an empty series is skipped, any other is kept as a frame
KeepFrame(rws, s, sector_name, geo) ==
    IF s = <<>> THEN rws ELSE Append(rws, TagFrame(s, sector_name, geo))

LoopDone == si > Len(sectors) \/ geos = <<>>

\* lines 176-178: key = _hicp_key(geo, coicop, measure), then the call of
\* fetch_series_retry(key, start=start, end=end) with its default budget
CallFetch ==
    /\ tpc = "loop"
    /\ ~LoopDone
    /\ IF measure \notin MEASURE_CHOICES
       THEN /\ tres' = TidyRaise(Exc("ValueError", 0))
            /\ tpc' = "done"
            /\ UNCHANGED retryVars
       ELSE /\ tpc' = "fetch"
            /\ retries' = DefaultRetries
            /\ attempt' = 1
            /\ last_err' = NoError
            /\ fpc' = "loop"
            /\ fres' = [kind |-> "none", series |-> NoSeries, exc |-> NoError]
            /\ log' = <<>>
            /\ events' = <<>>
            /\ UNCHANGED tres
    /\ UNCHANGED <<measure, sectors, geos, si, gi, rows, fetched, normVars, restVars>>

\* the fetch raised: the exception leaves hicp_by_sector_long
FetchRaised ==
    /\ tpc = "fetch"
    /\ fpc = "done"
    /\ fres.kind = "raise"
    /\ tres' = TidyRaise(fres.exc)
    /\ tpc' = "done"
    /\ UNCHANGED <<measure, sectors, geos, si, gi, rows, fetched, retryVars, normVars, restVars>>

\* lines 179-184: the fetch returned s; skip it when empty, else keep its frame
FetchReturned ==
    /\ tpc = "fetch"
    /\ fpc = "done"
    /\ fres.kind = "return"
    /\ LET s == fres.series
       IN  /\ rows' = KeepFrame(rows, s, sectors[si], geos[gi])
           /\ fetched' = Append(fetched,
                            [sector |-> sectors[si], geo |-> geos[gi], series |-> s])
    /\ IF gi < Len(geos)
       THEN gi' = gi + 1 /\ si' = si
       ELSE gi' = 1 /\ si' = si + 1
    /\ tpc' = "loop"
    /\ UNCHANGED <<measure, sectors, geos, tres, retryVars, normVars, restVars>>

\* lines 185-189: the empty table, or the concatenated frames sorted
Finish ==
    /\ tpc = "loop"
    /\ LoopDone
    /\ tres' = IF rows = <<>> THEN TidyReturn(<<>>)
               ELSE TidyReturn(SortValues(Concat(rows)))
    /\ tpc' = "done"
    /\ UNCHANGED <<measure, sectors, geos, si, gi, rows, fetched, retryVars, normVars, restVars>>

\* the orderings without repetition of the subsets of S
Orderings(S) ==
    UNION { {q \in [1..Cardinality(T) -> T] : \A i, j \in DOMAIN q : i # j => q[i] # q[j]}
            : T \in SUBSET S }

SectorNames == {"ALL_ITEMS", "ENERGY"}
GeoCodes    == {"DE", "FR"}

\* SpecTidy: one call hicp_by_sector_long(geos, sectors, measure, start, end)
InitTidy ==
    /\ measure \in MEASURE_CHOICES \cup {"XXX"}
    /\ sectors \in Orderings(SectorNames)
    /\ geos \in Orderings(GeoCodes)
    /\ si = 1
    /\ gi = 1
    /\ rows = <<>>
    /\ tpc = "loop"
    /\ tres = [kind |-> "none", columns |-> <<>>, table |-> <<>>, exc |-> NoError]
    /\ fetched = <<>>
    /\ RetryIdle
    /\ NormIdle
    /\ RestIdle

\* (LoopExhausted, line 107, cannot fire under the default budget of 3)
NextTidy ==
    \/ CallFetch
    \/ GetSeriesFails
    \/ GetSeriesReturns
    \/ Sleep
    \/ FetchRaised
    \/ FetchReturned
    \/ Finish

SpecTidy == InitTidy /\ [][NextTidy]_vars

-----------------------------------------------------------------------------
(* Properties of fetch_series_retry *)

Gets   == Cardinality({i \in 1..Len(events) : events[i] = "get"})
Sleeps == Cardinality({i \in 1..Len(events) : events[i] = "sleep"})

\* get, sleep, get, ..., get: a pause between consecutive attempts only
Alternating ==
    /\ Len(events) = 2 * Gets - 1
    /\ \A i \in 1..Len(events) : events[i] = (IF i % 2 = 1 THEN "get" ELSE "sleep")

\* C1: an error the normalizer raises on a response the transport returned
\* is not retried: the call ends there with that error, after no pause that
\* follows it (with a first-attempt response: one transport call, no pause).
C1_NormalizerErrorNotRetried ==
    \A i \in 1..Len(log) :
        log[i].normalize = "raise" =>
            /\ fpc = "done"
            /\ fres.kind = "raise"
            /\ fres.exc = Exc(log[i].exc, i)
            /\ Len(log) = i
            /\ Gets = i
            /\ Sleeps = i - 1

\* the attempts whose try body (transport call and normalization) succeeded
Succeeded == {i \in 1..Len(log) : log[i].normalize = "return"}

\* C2 (safety part): a finished call with budget r >= 1 made k attempts and
\* k - 1 pauses, one between consecutive attempts, where k is the first
\* attempt that succeeded, or r when none did; it returned the normalized
\* series in the first case and raised in the second; and no call makes more
\* than r attempts.
C2_AttemptsAndPauses ==
    /\ Len(log) <= retries
    /\ (fpc = "done" /\ retries >= 1) =>
        /\ Alternating
        /\ Gets = Len(log)
        /\ Sleeps = Len(log) - 1
        /\ IF Succeeded = {}
           THEN /\ Len(log) = retries
                /\ fres.kind = "raise"
           ELSE /\ Succeeded = {Len(log)}
                /\ fres.kind = "return"
    /\ (fpc = "done" /\ fres.kind = "return") =>
        Return(fres.series) \in normalize_ecb_df(log[Len(log)].df)

\* C2: the above always holds, and every call terminates.
C2_BoundedRetryTerminates == []C2_AttemptsAndPauses /\ <>(fpc = "done")

\* a call with budget 3 that succeeded at its second attempt: two transport
\* calls, one pause, and the third attempt never made
C2_Witness ==
    /\ fpc = "done"
    /\ retries = 3
    /\ Len(log) = 2
    /\ log[1].transport = "raise"
    /\ fres.kind = "return"
    /\ events = <<"get", "sleep", "get">>

\* C3: when every attempt failed in the transport, the caller receives a
\* FetchExhaustedError, never the transport's own error.
C3_ExhaustionIsWrapped ==
    (/\ fpc = "done"
     /\ retries >= 1
     /\ Len(log) = retries
     /\ \A i \in 1..Len(log) : log[i].transport = "raise")
    => /\ fres.kind = "raise"
       /\ fres.exc.type = "FetchExhaustedError"
       /\ fres.exc.type \notin TransportErrors

-----------------------------------------------------------------------------
(* Properties of the normalizers *)

HasColumn(cols, key) == \E i \in 1..Len(cols) : Upper(Strip(cols[i])) = key

\* the response has the two columns _normalize_ecb_df looks for
HasSuiteColumns(r) ==
    /\ \E i \in 1..Len(r.cols) : Upper(r.cols[i]) = "TIME_PERIOD"
    /\ \E i \in 1..Len(r.cols) : Upper(r.cols[i]) = "OBS_VALUE"

DateCellOf(r, i)  == r.rows[i][CHOOSE c \in 1..Len(r.cols) : Upper(r.cols[c]) = "TIME_PERIOD"]
ValueCellOf(r, i) == r.rows[i][CHOOSE c \in 1..Len(r.cols) : Upper(r.cols[c]) = "OBS_VALUE"]

\* a value cell read as a number, the decimal separator being , or .
ReadDecimal(cell) ==
    IF \E i \in 1..Len(cell) : cell[i] = ","
    THEN ToNumeric([i \in 1..Len(cell) |-> IF cell[i] = "," THEN "." ELSE cell[i]])
    ELSE ToNumeric(cell)

\* the rows whose date and value both parse
Parseable(r) ==
    {i \in 1..Len(r.rows) :
        ~IsNa(ToDatetime(DateCellOf(r, i))) /\ ~IsNa(ReadDecimal(ValueCellOf(r, i)))}

EntryOf(r, i) ==
    [date |-> ToDatetime(DateCellOf(r, i))[1], value |-> ReadDecimal(ValueCellOf(r, i))]

Occurrences(s, e) == Cardinality({k \in 1..Len(s) : s[k] = e})

\* C4: for a response with N rows whose date and value both parse,
\* _normalize_ecb_df returns exactly N entries, one per such row with that
\* row's date and value (duplicate dates kept), in non-decreasing date order.
C4_NormalizeKeepsParseableRows ==
    (fn = "normalize_ecb_df" /\ HasSuiteColumns(raw)) =>
        /\ out.kind = "return"
        /\ Len(out.series) = Cardinality(Parseable(raw))
        /\ \A i \in Parseable(raw) :
              Occurrences(out.series, EntryOf(raw, i))
                = Cardinality({j \in Parseable(raw) : EntryOf(raw, j) = EntryOf(raw, i)})
        /\ \A k \in 1..Len(out.series) - 1 :
              out.series[k].date <= out.series[k + 1].date

\* three rows, one of them malformed, the other two on the same date with
\* different values: both are kept
C4_Witness ==
    /\ fn = "normalize_ecb_df"
    /\ HasSuiteColumns(raw)
    /\ Len(raw.rows) = 3
    /\ Cardinality(Parseable(raw)) = 2
    /\ Len(out.series) = 2
    /\ out.series[1].date = out.series[2].date
    /\ out.series[1].value # out.series[2].value

IsFrameFetch == fn \in {"ecb_data.fetch_series_dataframe", "us_data.fetch_series_dataframe"}

\* C5: a frame returned by fetch_series_dataframe (ecb_data, us_data) has no
\* row whose value is missing.
C5_NoMissingValues ==
    (IsFrameFetch /\ out.kind = "return") =>
        \A k \in 1..Len(out.series) : ~IsNa(out.series[k].value)

\* the response with every decimal comma written as a decimal point
PointVariant(r) ==
    [decodable |-> r.decodable,
     pre |-> r.pre,
     cols |-> r.cols,
     rows |-> [i \in 1..Len(r.rows) |->
                  [c \in 1..Len(r.rows[i]) |->
                      [k \in 1..Len(r.rows[i][c]) |->
                          IF r.rows[i][c][k] = "," THEN "." ELSE r.rows[i][c][k]]]]]

\* C6: a response written with decimal commas normalizes to what the same
\* response written with decimal points normalizes to, in _normalize_ecb_df
\* and in ecb_data.fetch_series_dataframe.
C6_DecimalCommaSameSeries ==
    /\ fn = "normalize_ecb_df" => out \in normalize_ecb_df(PointVariant(raw))
    /\ fn = "ecb_data.fetch_series_dataframe"
          => out \in ecb_fetch_series_dataframe(PointVariant(raw))

C8_MissingColumnRaisesDownloadError ==
    /\ (/\ fn = "ecb_data.fetch_series_dataframe"
        /\ ~(HasColumn(raw.cols, "TIME_PERIOD") /\ HasColumn(raw.cols, "OBS_VALUE")))
          => out = Raise("DownloadError")
    /\ (/\ fn = "us_data.fetch_series_dataframe"
        /\ ~(HasColumn(raw.cols, "DATE") /\ HasColumn(raw.cols, "FEDFUNDS")))
          => out = Raise("DownloadError")

-----------------------------------------------------------------------------
(* Properties of hicp_by_sector_long *)

Fetches == {fetched[i] : i \in 1..Len(fetched)}

RowOf(f, k) ==
    [date |-> f.series[k].date, sector |-> f.sector, geo |-> f.geo,
     value |-> f.series[k].value]

\* C9: a (sector, geo) pair whose fetch returned an empty series gives no row
\* and no error; every pair is still fetched and every entry of the other
\* pairs is emitted; when all are empty the result is the empty table with
\* columns date, sector, geo, value.
C9_EmptySeriesSkipped ==
    /\ (tpc = "done" /\ tres.kind = "return") =>
        /\ Len(fetched) = Len(sectors) * Len(geos)
        /\ tres.columns = <<"date", "sector", "geo", "value">>
        /\ \A f \in Fetches :
              IF f.series = <<>>
              THEN \A i \in 1..Len(tres.table) :
                      ~(tres.table[i].sector = f.sector /\ tres.table[i].geo = f.geo)
              ELSE \A k \in 1..Len(f.series) :
                      \E i \in 1..Len(tres.table) : tres.table[i] = RowOf(f, k)
        /\ (\A f \in Fetches : f.series = <<>>) => tres.table = <<>>
    /\ (tpc = "done" /\ tres.kind = "raise") =>
        \/ measure \notin MEASURE_CHOICES
        \/ fres.kind = "raise" /\ tres.exc = fres.exc
    /\ (tpc = "fetch" /\ fpc = "done" /\ fres.kind = "return" /\ fres.series = <<>>) =>
        ENABLED FetchReturned

\* the spec's scenario: ENERGY/FR is empty, the three other pairs are not,
\* and their rows are all in the result
C9_Witness ==
    /\ tpc = "done"
    /\ tres.kind = "return"
    /\ Len(fetched) = 4
    /\ \E f \in Fetches : f.sector = "ENERGY" /\ f.geo = "FR" /\ f.series = <<>>
    /\ \A f \in Fetches : (f.sector # "ENERGY" \/ f.geo # "FR") => f.series # <<>>
    /\ Len(tres.table) >= 3

\* the order of the output: date, then sector name, then geo
KeyBefore(a, b) ==
    \/ a.date < b.date
    \/ a.date = b.date /\ NameRank(a.sector) < NameRank(b.sector)
    \/ a.date = b.date /\ a.sector = b.sector /\ NameRank(a.geo) < NameRank(b.geo)

\* C10: the output holds exactly the entries of the fetched series, each as
\* one row with its sector and geo, sorted by (date, sector, geo); what it is
\* is fixed by the fetched series, whatever the order of iteration.
C10_TidyRowsSorted ==
    (tpc = "done" /\ tres.kind = "return") =>
        /\ \A i \in 1..Len(tres.table) :
              \E f \in Fetches :
                  tres.table[i].sector = f.sector /\ tres.table[i].geo = f.geo
        /\ \A f \in Fetches :
              Select(tres.table,
                     {i \in 1..Len(tres.table) :
                        tres.table[i].sector = f.sector /\ tres.table[i].geo = f.geo})
                = [k \in 1..Len(f.series) |-> RowOf(f, k)]
        /\ \A i \in 1..Len(tres.table) - 1 :
              ~KeyBefore(tres.table[i + 1], tres.table[i])

\* both loops run against the sort order, and several series are non-empty
C10_Witness ==
    /\ tpc = "done"
    /\ tres.kind = "return"
    /\ sectors = <<"ENERGY", "ALL_ITEMS">>
    /\ geos = <<"FR", "DE">>
    /\ Len(tres.table) >= 5
    /\ tres.table[1].sector = "ALL_ITEMS"
    /\ tres.table[1].geo = "DE"


-----------------------------------------------------------------------------
(* pivots_from_hicp_long (ecb_suite.py lines 192-226) *)

MaxObs == 2     \* rows of the tidy table drawn in InitPivot

TableReturn(cols, rws) == [kind |-> "return", columns |-> cols, rows |-> rws]
TableRaise == [kind |-> "raise", columns |-> <<>>, rows |-> <<>>]

\* the names of S in Python's order of strings: the order in which
\* pivot_table lays out the values of its `columns` argument
RECURSIVE SortedNames(_)
SortedNames(S) ==
    IF S = {} THEN <<>>
    ELSE LET m == CHOOSE n \in S : \A k \in S : NameRank(n) <= NameRank(k)
         IN  <<m>> \o SortedNames(S \ {m})

\* the group keys <<date, name>> in the order of the sorted index, which
\* sort_values(["date", "country"]) (resp. "sector") then leaves as it is
RECURSIVE SortedKeys(_)
SortedKeys(K) ==
    IF K = {} THEN <<>>
    ELSE LET m == CHOOSE a \in K : \A b \in K :
                     \/ a[1] < b[1]
                     \/ a[1] = b[1] /\ NameRank(a[2]) <= NameRank(b[2])
         IN  <<m>> \o SortedKeys(K \ {m})

\* the rows of df with index key `key` and column name c
Group(df, idx, col, key, c) ==
    {i \in 1..Len(df) : df[i].date = key[1] /\ df[i][idx] = key[2] /\ df[i][col] = c}

\* the last row of the group wins
Last(df, idx, col, key, c) ==
    LET grp == Group(df, idx, col, key, c)
    IN  IF grp = {} THEN NaN
        ELSE df[CHOOSE i \in grp : \A j \in grp : j <= i].value

\* aggfunc="first": the value of the first row of the group, NaN for no row
First(df, idx, col, key, c) ==
    LET grp == Group(df, idx, col, key, c)
    IN  IF grp = {} THEN NaN
        ELSE df[CHOOSE i \in grp : \A j \in grp : i <= j].value

\* lines 209, 221: [c for c in order if c in columns]
Existing(order, columns) ==
    SelectSeq(order, LAMBDA c : \E i \in 1..Len(columns) : columns[i] = c)

\* lines 210-211, 222-223: [c for c in columns if c not in existing + [...]]
Others(columns, existing) ==
    SelectSeq(columns, LAMBDA c : \A i \in 1..Len(existing) : existing[i] # c)

\* lines 200-212 (idx "geo" renamed "country", col "sector") and lines
\* 214-224 (idx "sector", col "geo"): pivot_table, reset_index,
\* sort_values, then the columns put in the order existing + others
PivotTable(df, idx, idxname, col, order) ==
    LET columns  == SortedNames({df[i][col] : i \in 1..Len(df)})
        keys     == SortedKeys({<<df[i].date, df[i][idx]>> : i \in 1..Len(df)})
        existing == Existing(order, columns)
        final    == existing \o Others(columns, existing)
    IN  TableReturn(<<"date", idxname>> \o final,
            [k \in 1..Len(keys) |->
                [date  |-> keys[k][1],
                 key   |-> keys[k][2],
                 cells |-> [j \in 1..Len(final) |->
                              First(df, idx, col, keys[k], final[j])]]])

\* One call pivots_from_hicp_long(df_long, sectors, geos).  What pivot_table
\* makes of a frame without rows depends on the pandas release: the call
\* either returns two tables without value columns or raises.
PivotsFromHicpLong ==
    /\ df_country.kind = "none"
    /\ IF df_long = <<>>
       THEN \/ /\ df_country' = TableReturn(<<"date", "country">>, <<>>)
               /\ df_sector' = TableReturn(<<"date", "sector">>, <<>>)
            \/ /\ df_country' = TableRaise
               /\ df_sector' = TableRaise
       ELSE /\ df_country' = PivotTable(df_long, "geo", "country", "sector", sectors)
            /\ df_sector' = PivotTable(df_long, "sector", "sector", "geo", geos)
    /\ UNCHANGED <<df_long, tidyVars, normVars, retryVars, collectVars, mainVars, dlVars>>

PivotDates   == {20240101, 20240201}
PivotSectors == SectorNames \cup {"FOOD"}
PivotValues  == {<<150>>, <<-41>>}

\* the rows a tidy table is drawn from: no value is missing
TidyRows == [date : PivotDates, sector : PivotSectors, geo : GeoCodes, value : PivotValues]

\* SpecPivot: one call of pivots_from_hicp_long on a drawn tidy table
InitPivot ==
    /\ \E n \in 0..MaxObs : df_long \in [1..n -> TidyRows]
    /\ df_country = NoTable
    /\ df_sector = NoTable
    /\ sectors \in Orderings(SectorNames)
    /\ geos \in Orderings(GeoCodes)
    /\ measure = "ANR"
    /\ si = 1
    /\ gi = 1
    /\ rows = <<>>
    /\ tpc = "idle"
    /\ tres = [kind |-> "none", columns |-> <<>>, table |-> <<>>, exc |-> NoError]
    /\ fetched = <<>>
    /\ NormIdle
    /\ RetryIdle
    /\ CollectIdle
    /\ MainIdle
    /\ DownloadIdle

NextPivot ==
    \/ PivotsFromHicpLong

SpecPivot == InitPivot /\ [][NextPivot]_vars

-----------------------------------------------------------------------------
(* Properties of pivots_from_hicp_long *)

\* the value columns of a returned table
ValueColumns(t) == SubSeq(t.columns, 3, Len(t.columns))

\* the names in column `col` of df, each once, in the order of first occurrence
RECURSIVE FirstSeen(_, _)
FirstSeen(df, col) ==
    IF df = <<>> THEN <<>>
    ELSE LET before == FirstSeen(SubSeq(df, 1, Len(df) - 1), col)
             c      == df[Len(df)][col]
         IN  IF \E i \in 1..Len(before) : before[i] = c THEN before
             ELSE Append(before, c)

\* configured names that occur, in configured order, then the other names
\* that occur, in the order of first occurrence
ConfiguredThenFirstSeen(df, col, order) ==
    LET seen     == FirstSeen(df, col)
        existing == Existing(order, seen)
    IN  existing \o Others(seen, existing)

\* C11: in both tables returned by pivots_from_hicp_long the value columns
\* are the configured names that occur in the tidy input, in configured
\* order, followed by the names that are not configured in the order in
\* which the tidy input first shows them.
C11_ExtrasInFirstSeenOrder ==
    (df_country.kind = "return" /\ df_sector.kind = "return") =>
        /\ ValueColumns(df_country) = ConfiguredThenFirstSeen(df_long, "sector", sectors)
        /\ ValueColumns(df_sector) = ConfiguredThenFirstSeen(df_long, "geo", geos)

\* the cell of row r of table t under the value column named c
CellOf(t, r, c) ==
    LET vc == ValueColumns(t)
    IN  t.rows[r].cells[CHOOSE j \in 1..Len(vc) : vc[j] = c]

\* the tidy rows with date d, sector s and geo g
Observations(d, s, g) ==
    {i \in 1..Len(df_long) :
        df_long[i].date = d /\ df_long[i].sector = s /\ df_long[i].geo = g}

\* the value of the first tidy row with the key, absent without such a row
FirstObservation(d, s, g) ==
    LET obs == Observations(d, s, g)
    IN  IF obs = {} THEN NaN
        ELSE df_long[CHOOSE i \in obs : \A j \in obs : i <= j].value

\* rows of t strictly ascending by (date, key): one row per key
RowsAscending(t) ==
    \A r \in 1..(Len(t.rows) - 1) :
        \/ t.rows[r].date < t.rows[r + 1].date
        \/ /\ t.rows[r].date = t.rows[r + 1].date
           /\ NameRank(t.rows[r].key) < NameRank(t.rows[r + 1].key)

\* C12: in both returned tables every cell holds the value of the first
\* tidy observation with its (date, sector, geo) key, or nothing when the
\* tidy input has no such observation; every (date, country) resp.
\* (date, sector) of the input has its row, and rows ascend by that key.
C12_FirstObservationWins ==
    (df_country.kind = "return" /\ df_sector.kind = "return") =>
        /\ RowsAscending(df_country)
        /\ RowsAscending(df_sector)
        /\ {<<df_country.rows[r].date, df_country.rows[r].key>> : r \in 1..Len(df_country.rows)}
             = {<<df_long[i].date, df_long[i].geo>> : i \in 1..Len(df_long)}
        /\ {<<df_sector.rows[r].date, df_sector.rows[r].key>> : r \in 1..Len(df_sector.rows)}
             = {<<df_long[i].date, df_long[i].sector>> : i \in 1..Len(df_long)}
        /\ \A r \in 1..Len(df_country.rows) : \A j \in 1..Len(ValueColumns(df_country)) :
              df_country.rows[r].cells[j]
                = FirstObservation(df_country.rows[r].date,
                                   ValueColumns(df_country)[j], df_country.rows[r].key)
        /\ \A r \in 1..Len(df_sector.rows) : \A j \in 1..Len(ValueColumns(df_sector)) :
              df_sector.rows[r].cells[j]
                = FirstObservation(df_sector.rows[r].date,
                                   df_sector.rows[r].key, ValueColumns(df_sector)[j])

\* two observations of one key with different values went through the pivot
C12_Witness ==
    /\ df_country.kind = "return"
    /\ Len(df_long) = 2
    /\ df_long[1].date = df_long[2].date
    /\ df_long[1].sector = df_long[2].sector
    /\ df_long[1].geo = df_long[2].geo
    /\ df_long[1].value # df_long[2].value
    /\ df_country.rows[1].cells[1] = df_long[1].value


-----------------------------------------------------------------------------
(* The collectors: download_euribor_all (ecb_suite.py lines 113-122),      *)
(* fetch_exr_daily (lines 128-140), hicp_all_items_by_country (153-165)    *)

Collectors == {"download_euribor_all", "fetch_exr_daily", "hicp_all_items_by_country"}

\* the friendly names a call is drawn from: keys of EURIBOR_SERIES, codes of
\* CURRENCIES, codes of EURO_AREA_CODES
NamesOf(c) ==
    CASE c = "download_euribor_all"      -> {"euribor_3m", "euribor_6m"}
      [] c = "fetch_exr_daily"           -> {"USD", "GBP"}
      [] c = "hicp_all_items_by_country" -> GeoCodes

WideReturn(columns, rws) ==
    [kind |-> "return", columns |-> columns, rows |-> rws, exc |-> NoError]
WideRaise(e) ==
    [kind |-> "raise", columns |-> <<>>, rows |-> <<>>, exc |-> e]

DatesOf(s) == [i \in 1..Len(s) |-> s[i].date]

HasRepeatedDate(s) == \E i, j \in 1..Len(s) : i < j /\ s[i].date = s[j].date

\* how often the date d occurs in the series s
Count(s, d) == Cardinality({i \in 1..Len(s) : s[i].date = d})

\* ascending, each date of ds as often as the series that repeats it most
RECURSIVE AscendingIndex(_, _)
AscendingIndex(ds, cs) ==
    IF ds = {} THEN <<>>
    ELSE LET m      == CHOOSE d \in ds : \A e \in ds : d <= e
             counts == {Count(cs[k].series, m) : k \in 1..Len(cs)}
             most   == CHOOSE n \in counts : \A k \in counts : k <= n
         IN  [i \in 1..most |-> m] \o AscendingIndex(ds \ {m}, cs)

\* the index of pd.concat(cols, axis=1).sort_index(): the union of the indexes
UnionIndex(cs) ==
    AscendingIndex(UNION { {cs[k].series[i].date : i \in 1..Len(cs[k].series)}
                           : k \in 1..Len(cs) }, cs)

\* the series s laid on the index U, at position p: a series with the index U
\* is taken as it is, any other is looked up by date
CellAt(s, U, p) ==
    IF DatesOf(s) = U THEN s[p].value
    ELSE LET at == {i \in 1..Len(s) : s[i].date = U[p]}
         IN  IF at = {} THEN NaN ELSE s[CHOOSE i \in at : TRUE].value

\* a column for each series that has observations, none for an empty series
ColumnsOfNonEmpty(cs) ==
    LET kept == SelectSeq(cs, LAMBDA c : c.series # <<>>)
    IN  [k \in 1..Len(kept) |-> kept[k].name]

\* the names the series were renamed to, in the order of the list (dict)
ColumnNames(cs) == [k \in 1..Len(cs) |-> cs[k].name]

\* lines 121, 139, 164: pd.concat(cols, axis=1).sort_index().astype(float).
\* Nothing to concatenate raises ValueError.  A series with a repeated date
\* can only be laid on an index equal to its own; otherwise the reindexing
\* raises.  Where releases of pandas differ on whether the union of the
\* indexes keeps the repetition, both outcomes are possible.
ConcatColumns(cs) ==
    IF cs = <<>> THEN {WideRaise(Exc("ValueError", 0))}
    ELSE LET U        == UnionIndex(cs)
             table    == WideReturn(ColumnNames(cs),
                            [p \in 1..Len(U) |->
                               [date  |-> U[p],
                                cells |-> [k \in 1..Len(cs) |-> CellAt(cs[k].series, U, p)]]])
             repeated == {k \in 1..Len(cs) : HasRepeatedDate(cs[k].series)}
         IN  IF \A k \in 1..Len(cs) : DatesOf(cs[k].series) = U THEN {table}
             ELSE IF repeated = {} THEN {table}
             ELSE IF \A k \in repeated : DatesOf(cs[k].series) = U
                  THEN {table, WideRaise(Exc("InvalidIndexError", 0))}
             ELSE {WideRaise(Exc("InvalidIndexError", 0))}

CollectDone == ci > Len(series_map)

\* lines 118-119, 135-137, 159-161: the key of the next name, then the call
\* of fetch_series_retry with its default budget; _hicp_key (lines 146-150)
\* raises ValueError for a measure that is not known
CollectCall ==
    /\ cpc = "loop"
    /\ ~CollectDone
    /\ IF collector = "hicp_all_items_by_country" /\ measure \notin MEASURE_CHOICES
       THEN /\ cres' = WideRaise(Exc("ValueError", 0))
            /\ cpc' = "done"
            /\ UNCHANGED <<retryVars, called>>
       ELSE /\ cpc' = "fetch"
            /\ called' = Append(called, series_map[ci])
            /\ retries' = DefaultRetries
            /\ attempt' = 1
            /\ last_err' = NoError
            /\ fpc' = "loop"
            /\ fres' = [kind |-> "none", series |-> NoSeries, exc |-> NoError]
            /\ log' = <<>>
            /\ events' = <<>>
            /\ UNCHANGED cres
    /\ UNCHANGED <<collector, series_map, ci, ccols, tidyVars, normVars, pivotVars, mainVars, dlVars>>

\* the failing series is left out and the loop goes on
CollectFetchSkipped ==
    /\ cpc = "fetch"
    /\ fpc = "done"
    /\ fres.kind = "raise"
    /\ ci' = ci + 1
    /\ cpc' = "loop"
    /\ UNCHANGED <<collector, series_map, ccols, called, cres, retryVars, tidyVars,
                   normVars, pivotVars, mainVars, dlVars>>

\* the fetch raised: the exception leaves the collector
CollectFetchRaised ==
    /\ cpc = "fetch"
    /\ fpc = "done"
    /\ fres.kind = "raise"
    /\ cres' = WideRaise(fres.exc)
    /\ cpc' = "done"
    /\ UNCHANGED <<collector, series_map, ci, ccols, called, retryVars, tidyVars,
                   normVars, pivotVars, mainVars, dlVars>>

\* lines 119-120, 137-138, 161-162: the series renamed and kept
CollectFetchReturned ==
    /\ cpc = "fetch"
    /\ fpc = "done"
    /\ fres.kind = "return"
    /\ ccols' = Append(ccols, [name |-> series_map[ci], series |-> fres.series])
    /\ ci' = ci + 1
    /\ cpc' = "loop"
    /\ UNCHANGED <<collector, series_map, called, cres, retryVars, tidyVars,
                   normVars, pivotVars, mainVars, dlVars>>

\* lines 121-122, 139-140, 164-165: the wide table, or what concat raises
CollectFinish ==
    /\ cpc = "loop"
    /\ CollectDone
    /\ cres' \in ConcatColumns(ccols)
    /\ cpc' = "done"
    /\ UNCHANGED <<collector, series_map, ci, ccols, called, retryVars, tidyVars,
                   normVars, pivotVars, mainVars, dlVars>>

\* SpecCollect: one call of a collector on names without repetition
InitCollect ==
    /\ collector \in Collectors
    /\ series_map \in Orderings(NamesOf(collector))
    /\ ci = 1
    /\ ccols = <<>>
    /\ called = <<>>
    /\ cpc = "loop"
    /\ cres = NoWide
    /\ measure \in (IF collector = "hicp_all_items_by_country"
                    THEN MEASURE_CHOICES \cup {"XXX"} ELSE {"ANR"})
    /\ sectors = <<>>
    /\ geos = <<>>
    /\ si = 1
    /\ gi = 1
    /\ rows = <<>>
    /\ tpc = "idle"
    /\ tres = [kind |-> "none", columns |-> <<>>, table |-> <<>>, exc |-> NoError]
    /\ fetched = <<>>
    /\ RetryIdle
    /\ NormIdle
    /\ PivotIdle
    /\ MainIdle
    /\ DownloadIdle

NextCollect ==
    \/ CollectCall
    \/ GetSeriesFails
    \/ GetSeriesReturns
    \/ Sleep
    \/ CollectFetchRaised
    \/ CollectFetchReturned
    \/ CollectFinish

SpecCollect == InitCollect /\ [][NextCollect]_vars

\* SpecFailFast: one call of a collector or of hicp_by_sector_long
InitFailFast == InitCollect \/ InitTidy

NextFailFast == NextCollect \/ NextTidy

SpecFailFast == InitFailFast /\ [][NextFailFast]_vars

-----------------------------------------------------------------------------
(* Properties of the collectors *)

\* C13: a wide table returned by a collector has one column per requested
\* name, in the order of the input, whatever dates the series have.
C13_ColumnsInInputOrder ==
    cres.kind = "return" => cres.columns = series_map

\* a table of two columns was returned whose series have different dates
C13_Witness ==
    /\ cres.kind = "return"
    /\ Len(series_map) = 2
    /\ cres.columns = series_map
    /\ DatesOf(ccols[1].series) # DatesOf(ccols[2].series)
    /\ ccols[2].series # <<>>
    /\ Len(cres.rows) = 2

\* the dates found in any series that was fetched
FetchedDates ==
    UNION { {ccols[k].series[i].date : i \in 1..Len(ccols[k].series)}
            : k \in 1..Len(ccols) }

\* C14: the rows of a returned wide table are the dates of the union of the
\* fetched series, one row per date, ascending; the cell of a series holds
\* its value for the date of the row when it has that date, and nothing
\* when it has not.
C14_RowsAreUnionOfDates ==
    cres.kind = "return" =>
        /\ \A r \in 1..(Len(cres.rows) - 1) : cres.rows[r].date < cres.rows[r + 1].date
        /\ {cres.rows[r].date : r \in 1..Len(cres.rows)} = FetchedDates
        /\ \A r \in 1..Len(cres.rows) : \A k \in 1..Len(ccols) :
              LET s  == ccols[k].series
                  at == {i \in 1..Len(s) : s[i].date = cres.rows[r].date}
              IN  IF at = {} THEN IsNa(cres.rows[r].cells[k])
                  ELSE \A i \in at : cres.rows[r].cells[k] = s[i].value

\* one step of a run in which a fetch has failed, or which has ended
FailFastStep ==
    /\ (cpc = "fetch" /\ fpc = "done" /\ fres.kind = "raise") =>
          /\ cpc' = "done"
          /\ cres' = WideRaise(fres.exc)
          /\ called' = called
          /\ events' = events
    /\ (tpc = "fetch" /\ fpc = "done" /\ fres.kind = "raise") =>
          /\ tpc' = "done"
          /\ tres' = TidyRaise(fres.exc)
          /\ fetched' = fetched
          /\ events' = events
    /\ (cpc = "done" \/ tpc = "done") => UNCHANGED vars

\* C15: when the fetch of a series fails during a collector or tidy-builder
\* run, the next step ends the call with that error, no table is returned,
\* and nothing is fetched afterwards.
C15_FailFast == [][FailFastStep]_vars

\* the first of two series failed: the call ended with its error, the second
\* name was never asked for
C15_Witness ==
    /\ cpc = "done"
    /\ cres.kind = "raise"
    /\ cres.exc = fres.exc
    /\ fres.kind = "raise"
    /\ Len(series_map) = 2
    /\ called = <<series_map[1]>>


-----------------------------------------------------------------------------
(* Properties of us_data.fetch_series_dataframe *)

\* the first column whose name is DATE or OBSERVATION_DATE in any case,
\* 0 when the header has none
AliasColumn(cols) ==
    LET hits == {i \in 1..Len(cols) :
                    Upper(Strip(cols[i])) \in {"DATE", "OBSERVATION_DATE"}}
    IN  IF hits = {} THEN 0 ELSE CHOOSE i \in hits : \A j \in hits : i <= j

\* C16: a response whose date column is named DATE, date or
\* observation_date (and which has the series column and a parseable date)
\* is parsed by us_data.fetch_series_dataframe and indexed by the dates of
\* that column.
C16_DateAliasesAccepted ==
    LET ac == AliasColumn(raw.cols)
    IN  (/\ fn = "us_data.fetch_series_dataframe"
         /\ raw.decodable
         /\ ac # 0
         /\ FindSeriesColumn(raw.cols, "FEDFUNDS") # 0
         /\ ~AllDatesNa(raw.rows, ac))
        => /\ out.kind = "return"
           /\ {out.series[i].date : i \in 1..Len(out.series)}
                = {ToDatetime(raw.rows[i][ac])[1] :
                     i \in {j \in 1..Len(raw.rows) : ~IsNa(ToDatetime(raw.rows[j][ac]))}}


-----------------------------------------------------------------------------
(* Properties of ecb_data.fetch_series_dataframe *)

\* C17: when the transport fails with a DownloadError caused by a network
\* failure, ecb_data.fetch_series_dataframe does not raise but returns a
\* frame that is not empty (the fallback data, marked as such in attrs).
C17_FallbackOnNetworkFailure ==
    (fn = "ecb_data.fetch_series_dataframe" /\ net = "RequestException")
        => (out.kind = "return" /\ out.series # <<>>)

\* the lines of the response, preamble and header, that have a field equal
\* to TIME_PERIOD when case is ignored
TimePeriodLines ==
    {k \in 1..(Len(raw.pre) + 1) :
        LET line == IF k <= Len(raw.pre) THEN raw.pre[k] ELSE raw.cols
        IN  \E i \in 1..Len(line) : Upper(line[i]) = "TIME_PERIOD"}

\* the response r without the lines in front of line k
Behind(r, k) == WithPreamble(SubSeq(r.pre, k, Len(r.pre)), r)

\* the entries a frame made of the table of `raw` holds: per row with a
\* parseable date, that date and the value cell read as a number
TableEntries ==
    LET tc   == FindColumn(raw.cols, "TIME_PERIOD")
        vc   == FindColumn(raw.cols, "OBS_VALUE")
        kept == {i \in 1..Len(raw.rows) : ~IsNa(ToDatetime(raw.rows[i][tc]))}
    IN  [i \in kept |-> [date  |-> ToDatetime(raw.rows[i][tc])[1],
                         value |-> ToNumeric(raw.rows[i][vc])]]

\* what C18 says of the response `raw` and the outcome `out`
PreambleDiscarded ==
        IF TimePeriodLines = {}
        THEN /\ strip_metadata_lines(raw) = Raise("DownloadError")
             /\ out = Raise("DownloadError")
        ELSE LET k == CHOOSE j \in TimePeriodLines : \A m \in TimePeriodLines : j <= m
             IN  /\ strip_metadata_lines(raw).kind = "return"
                 /\ out \in ecb_fetch_series_dataframe(Behind(raw, k))
                 /\ (out.kind = "return" /\ k = Len(raw.pre) + 1) =>
                       /\ Len(out.series) = Cardinality(DOMAIN TableEntries)
                       /\ \A i \in DOMAIN TableEntries :
                             \E j \in 1..Len(out.series) : out.series[j] = TableEntries[i]
                       /\ \A j \in 1..Len(out.series) :
                             \E i \in DOMAIN TableEntries : out.series[j] = TableEntries[i]

\* C18: ecb_data.fetch_series_dataframe ends as it does on the response
\* without the lines in front of the first line that has a field equal to
\* TIME_PERIOD (case ignored); the frame it returns holds, per row with a
\* date, that date and the value column and nothing else; without such a
\* line _strip_metadata_lines raises DownloadError.
C18_PreambleDiscarded ==
    (fn = "ecb_data.fetch_series_dataframe" /\ net = "ok") => PreambleDiscarded

\* C18 for the responses that decode as UTF-8
C18_DecodablePreambleDiscarded ==
    (fn = "ecb_data.fetch_series_dataframe" /\ net = "ok" /\ raw.decodable)
        => PreambleDiscarded


-----------------------------------------------------------------------------
(* The script: ecb_suite.py lines 324-385 *)

MaxSeries == 2      \* fetches one artifact may take

RunChoices ==
    {"all", "ecb_all", "euribor", "fx", "hicp_agg", "hicp_sector",
     "fred", "fred_inflation", "fred_rates"}

\* the artifacts in the order of their blocks
Artifacts == <<"euribor", "fx", "hicp_agg", "hicp_sector", "fred_inflation", "fred_rates">>

\* only the runs named after FRED ask for the client
FredRunsOnly(r) == r \in {"fred", "fred_inflation", "fred_rates"}

\* line 331
FredRequested(r) == r \in {"all", "fred", "fred_inflation", "fred_rates"}

\* the conditions of lines 336, 342, 348, 354, 365, 376
Selected(k, r) ==
    CASE k = 1 -> r \in {"all", "ecb_all", "euribor"}
      [] k = 2 -> r \in {"all", "ecb_all", "fx"}
      [] k = 3 -> r \in {"all", "ecb_all", "hicp_agg"}
      [] k = 4 -> r \in {"all", "ecb_all", "hicp_sector"}
      [] k = 5 -> FredRequested(r) /\ r \in {"all", "fred", "fred_inflation"}
      [] k = 6 -> FredRequested(r) /\ r \in {"all", "fred", "fred_rates"}

\* the files of an artifact, in the order in which they are written
FilesOf(k) ==
    CASE k = 1 -> <<"out_euribor">>
      [] k = 2 -> <<"out_fx">>
      [] k = 3 -> <<"out_hicp_agg">>
      [] k = 4 -> <<"out_hicp_sector_country", "out_hicp_sector_sector">>
      [] k = 5 -> <<"out_fred_inflation">>
      [] k = 6 -> <<"out_fred_rates">>

MainRaise(k, e) == [failed |-> TRUE, at |-> k, exc |-> e]

\* what _ensure_fred finds: the fredapi import (lines 11-14) and a key from
\* --fred-api-key or FRED_API_KEY (line 235) may each be there or not
FredEnvs == {"ok", "no_fredapi", "no_key", "no_fredapi_no_key"}

\* line 233: Fred is not None
HasFredapi(e) == e \in {"ok", "no_key"}

\* lines 235-236: api_key or os.getenv("FRED_API_KEY") is not empty
HasKey(e) == e \in {"ok", "no_fredapi"}

\* lines 331-334: the FRED client is made before the first block
EnsureFred ==
    /\ mpc = 0
    /\ IF FredRequested(run) /\ fred_env # "ok"
       THEN /\ merr' = MainRaise(0, IF ~HasFredapi(fred_env) THEN "ImportError"
                                    ELSE "EnvironmentError")
            /\ mpc' = 7
       ELSE /\ mpc' = 1
            /\ UNCHANGED merr
    /\ UNCHANGED <<run, fred_env, csv, mstep, nf, written, mlog, normVars, retryVars,
                   tidyVars, pivotVars, collectVars, dlVars>>

\* the condition of the block is false
SkipArtifact ==
    /\ mpc \in 1..6
    /\ ~Selected(mpc, run)
    /\ mpc' = mpc + 1
    /\ UNCHANGED <<run, fred_env, csv, mstep, nf, written, mlog, merr, normVars, retryVars,
                   tidyVars, pivotVars, collectVars, dlVars>>

\* one series of the artifact is fetched, inside the call of lines 337, 343,
\* 349, 355, 366 or 377
FetchSeries ==
    /\ mpc \in 1..6
    /\ Selected(mpc, run)
    /\ mstep = "build"
    /\ nf < MaxSeries
    /\ nf' = nf + 1
    /\ mlog' = Append(mlog, [op |-> "fetch", art |-> mpc])
    /\ UNCHANGED <<run, fred_env, csv, mpc, mstep, written, merr, normVars, retryVars,
                   tidyVars, pivotVars, collectVars, dlVars>>

\* the exception is noted and the run goes on with the next block
BuildRaisesRunGoesOn ==
    /\ mpc \in 1..6
    /\ Selected(mpc, run)
    /\ mstep \in {"build", "pivot"}
    /\ \E e \in {"ConnectionError", "KeyError", "ValueError"} : merr' = MainRaise(mpc, e)
    /\ mpc' = mpc + 1
    /\ mstep' = "build"
    /\ nf' = 0
    /\ UNCHANGED <<run, fred_env, csv, written, mlog, normVars, retryVars,
                   tidyVars, pivotVars, collectVars, dlVars>>

\* the call that builds the table raises (the last fetch failed, or the
\* assembly of the table did): nothing catches it, the run ends
BuildRaises ==
    /\ mpc \in 1..6
    /\ Selected(mpc, run)
    /\ mstep \in {"build", "pivot"}
    /\ \E e \in {"ConnectionError", "KeyError", "ValueError"} : merr' = MainRaise(mpc, e)
    /\ mpc' = 7
    /\ UNCHANGED <<run, fred_env, csv, mstep, nf, written, mlog, normVars, retryVars,
                   tidyVars, pivotVars, collectVars, dlVars>>

\* the call returns its table; line 358 follows for the sector artifact
BuildReturns ==
    /\ mpc \in 1..6
    /\ Selected(mpc, run)
    /\ mstep = "build"
    /\ mstep' = IF mpc = 4 THEN "pivot" ELSE "write"
    /\ UNCHANGED <<run, fred_env, csv, mpc, nf, written, mlog, merr, normVars, retryVars,
                   tidyVars, pivotVars, collectVars, dlVars>>

\* line 358: pivots_from_hicp_long returns the two tables
PivotsReturn ==
    /\ mpc = 4
    /\ mstep = "pivot"
    /\ mstep' = "write"
    /\ UNCHANGED <<run, fred_env, csv, mpc, nf, written, mlog, merr, normVars, retryVars,
                   tidyVars, pivotVars, collectVars, dlVars>>

\* the float_format argument of the to_csv call that writes the file, as its
\* number of decimals (lines 339, 345, 351, 359, 362, 373, 384)
FloatFormat(file) ==
    CASE file = "out_euribor"             -> 6
      [] file = "out_fx"                  -> 6
      [] file = "out_hicp_agg"            -> 4
      [] file = "out_hicp_sector_country" -> 4
      [] file = "out_hicp_sector_sector"  -> 4
      [] file = "out_fred_inflation"      -> 6
      [] file = "out_fred_rates"          -> 6

RECURSIVE Pow10(_)
Pow10(n) == IF n = 0 THEN 1 ELSE 10 * Pow10(n - 1)

DigitText(n) ==
    CASE n = 0 -> "0" [] n = 1 -> "1" [] n = 2 -> "2" [] n = 3 -> "3"
      [] n = 4 -> "4" [] n = 5 -> "5" [] n = 6 -> "6" [] n = 7 -> "7"
      [] n = 8 -> "8" [] n = 9 -> "9"

\* the decimal digits of a natural number
RECURSIVE NatText(_)
NatText(n) == IF n < 10 THEN <<DigitText(n)>> ELSE Append(NatText(n \div 10), DigitText(n % 10))

\* n written with at least w digits
ZeroPad(n, w) ==
    LET t == NatText(n)
    IN  IF Len(t) >= w THEN t ELSE [i \in 1..(w - Len(t)) |-> "0"] \o t

\* "%.<d>f" % x for a float held in hundredths; NaN is written as the empty
\* text (na_rep = "")
FormatFloat(cell, d) ==
    IF IsNa(cell) THEN <<>>
    ELSE LET v == cell[1]
             q == (IF v < 0 THEN -v ELSE v) * Pow10(d - 2)
         IN  (IF v < 0 THEN <<"-">> ELSE <<>>)
                 \o NatText(q \div Pow10(d)) \o <<".">> \o ZeroPad(q % Pow10(d), d)

\* Timestamp.strftime("%Y-%m-%d")
FormatDate(t) ==
    ZeroPad(t \div 10000, 4) \o <<"-">> \o ZeroPad((t \div 100) % 100, 2)
        \o <<"-">> \o ZeroPad(t % 100, 2)

\* the float cells and the dates of the table an artifact holds
CsvFloats == {<<150>>, <<-41>>, <<0>>, <<12345>>, NaN}
CsvDates  == {20240101, 20231215}

\* DataFrame.to_csv(file, float_format=..., date_format="%Y-%m-%d")
ToCsv(file) ==
    [file   |-> file,
     floats |-> {FormatFloat(x, FloatFormat(file)) : x \in CsvFloats},
     dates  |-> {FormatDate(t) : t \in CsvDates}]

\* the file the block writes next
NextFile == FilesOf(mpc)[IF mstep = "write2" THEN 2 ELSE 1]

\* lines 339, 345, 351, 359, 362, 373, 384: to_csv writes the file
WriteCsv ==
    /\ mpc \in 1..6
    /\ mstep \in {"write", "write2"}
    /\ written' = written \cup {NextFile}
    /\ csv' = {c \in csv : c.file # NextFile} \cup {ToCsv(NextFile)}
    /\ mlog' = Append(mlog, [op |-> "write", art |-> mpc])
    /\ IF mstep = "write" /\ Len(FilesOf(mpc)) = 2
       THEN /\ mstep' = "write2"
            /\ UNCHANGED <<mpc, nf>>
       ELSE /\ mstep' = "build"
            /\ mpc' = mpc + 1
            /\ nf' = 0
    /\ UNCHANGED <<run, fred_env, merr, normVars, retryVars,
                   tidyVars, pivotVars, collectVars, dlVars>>

\* to_csv cannot write the file: OSError ends the run
WriteCsvRaises ==
    /\ mpc \in 1..6
    /\ mstep \in {"write", "write2"}
    /\ merr' = MainRaise(mpc, "OSError")
    /\ mpc' = 7
    /\ UNCHANGED <<run, fred_env, csv, mstep, nf, written, mlog, normVars, retryVars,
                   tidyVars, pivotVars, collectVars, dlVars>>

\* SpecMain: one run of the script
InitMain ==
    /\ run \in RunChoices
    /\ fred_env \in FredEnvs
    /\ mpc = 0
    /\ mstep = "build"
    /\ nf = 0
    /\ written = {}
    /\ csv = {}
    /\ mlog = <<>>
    /\ merr = NoMainError
    /\ NormIdle
    /\ RetryIdle
    /\ TidyIdle
    /\ PivotIdle
    /\ CollectIdle
    /\ DownloadIdle

NextMain ==
    \/ EnsureFred
    \/ SkipArtifact
    \/ FetchSeries
    \/ BuildRaises
    \/ BuildReturns
    \/ PivotsReturn
    \/ WriteCsv
    \/ WriteCsvRaises

SpecMain == InitMain /\ [][NextMain]_vars

-----------------------------------------------------------------------------
(* Properties of the script *)

\* every file of artifact k is written
ArtifactWritten(k) == \A i \in 1..Len(FilesOf(k)) : FilesOf(k)[i] \in written

\* some file of artifact k is written
ArtifactTouched(k) == \E i \in 1..Len(FilesOf(k)) : FilesOf(k)[i] \in written

\* C19: in a run of the script every file of an artifact is written before
\* anything is fetched for a later artifact; a run ended by an exception in
\* the block of artifact k has written every selected artifact before k,
\* has not completed artifact k and has written nothing of a later one.
C19_ArtifactsWrittenInTurn ==
    /\ \A i, j \in 1..Len(mlog) :
          (mlog[i].op = "fetch" /\ mlog[j].op = "write" /\ mlog[j].art < mlog[i].art)
              => j < i
    /\ \A i \in 1..Len(mlog) :
          mlog[i].op = "fetch" =>
              \A a \in 1..(mlog[i].art - 1) :
                  Selected(a, run) =>
                      Cardinality({j \in 1..(i - 1) : mlog[j] = [op |-> "write", art |-> a]})
                          = Len(FilesOf(a))
    /\ merr.failed =>
          /\ mpc = 7
          /\ \A a \in 1..6 :
                /\ (a < merr.at /\ Selected(a, run)) => ArtifactWritten(a)
                /\ a = merr.at => ~ArtifactWritten(a)
                /\ a > merr.at => ~ArtifactTouched(a)

\* a run of everything that failed while fetching for the third artifact,
\* with the first two on disk
C19_Witness ==
    /\ run = "all"
    /\ merr.failed
    /\ merr.at = 3
    /\ mlog[Len(mlog)] = [op |-> "fetch", art |-> 3]
    /\ written = {"out_euribor", "out_fx"}


-----------------------------------------------------------------------------
(* download_series_collection: economics_metrics/ecb_data.py lines 166-207, *)
(* economics_metrics/us_data.py lines 179-220 with download_fred_series     *)
(* (lines 76-117)                                                           *)

MaxNames == 2       \* requested names drawn in InitDownload

\* the keys of DEFAULT_SERIES, in the order of the mapping
DefaultNames == <<"cpi", "reference_rate">>

\* the names a caller may ask for: the two that exist and one that does not
RequestedNames == {"cpi", "reference_rate", "gdp"}

\* SeriesConfig.output_name() of the series called n
OutputName(m, n) ==
    CASE m = "ecb_data" /\ n = "cpi"            -> "ea_hicp_all_items.csv"
      [] m = "ecb_data" /\ n = "reference_rate" -> "ea_euribor_3m.csv"
      [] m = "us_data" /\ n = "cpi"             -> "us_cpi_all_urban.csv"
      [] m = "us_data" /\ n = "reference_rate"  -> "us_federal_funds_rate.csv"
      [] OTHER                                  -> n

OutputFiles(m) == {OutputName(m, DefaultNames[i]) : i \in 1..Len(DefaultNames)}

\* lines 179-182 (ecb_data), 208-211 (us_data): no names means all of them
Names == IF series_names # <<>> THEN series_names ELSE DefaultNames

\* every name passes for a known one
AnyName(n) == TRUE

\* line 188 (ecb_data), 215 (us_data): name in available
IsAvailable(n) == \E i \in 1..Len(DefaultNames) : DefaultNames[i] = n

\* no file is ever skipped
NeverSkips(target) == FALSE

\* line 193 (ecb_data), 107 (us_data): not overwrite and target_path.exists()
Skips(target) == ~overwrite /\ target \in files

DlReturn == [kind |-> "return", exc |-> "None"]
DlRaise(e) == [kind |-> "raise", exc |-> e]

\* the name is looked up; a known one whose file exists is skipped when
\* overwrite is off (ecb_data lines 188-195; us_data lines 215-216, 105-108)
DlCheckName ==
    /\ dpc = "loop"
    /\ ni <= Len(Names)
    /\ IF ~IsAvailable(Names[ni])
       THEN /\ dres' = DlRaise("KeyError")
            /\ dpc' = "done"
            /\ UNCHANGED <<ni, downloaded>>
       ELSE IF Skips(OutputName(dmodule, Names[ni]))
       THEN /\ downloaded' = Append(downloaded, OutputName(dmodule, Names[ni]))
            /\ ni' = ni + 1
            /\ UNCHANGED <<dpc, dres>>
       ELSE /\ dpc' = "retrieve"
            /\ UNCHANGED <<ni, downloaded, dres>>
    /\ UNCHANGED <<dmodule, series_names, overwrite, files, content, calls, writes,
                   normVars, retryVars, tidyVars, pivotVars, collectVars, mainVars>>

\* _retrieve_series_csv returns the bytes (ecb_data line 197 and, with a
\* header line found, line 198; us_data line 110)
DlRetrieveReturns ==
    /\ dpc = "retrieve"
    /\ calls' = Append(calls, Names[ni])
    /\ dpc' = "write"
    /\ UNCHANGED <<dmodule, series_names, overwrite, ni, files, content, writes,
                   downloaded, dres,
                   normVars, retryVars, tidyVars, pivotVars, collectVars, mainVars>>

\* _retrieve_series_csv raises DownloadError; in ecb_data _strip_metadata_lines
\* may raise DownloadError or, for bytes that do not decode, UnicodeDecodeError
DlRetrieveRaises ==
    /\ dpc = "retrieve"
    /\ calls' = Append(calls, Names[ni])
    /\ \E e \in (IF dmodule = "ecb_data" THEN {"DownloadError", "UnicodeDecodeError"}
                 ELSE {"DownloadError"}) : dres' = DlRaise(e)
    /\ dpc' = "done"
    /\ UNCHANGED <<dmodule, series_names, overwrite, ni, files, content, writes,
                   downloaded,
                   normVars, retryVars, tidyVars, pivotVars, collectVars, mainVars>>

\* write_bytes writes the file (ecb_data lines 200-205; us_data lines 112-117)
DlWriteBytes ==
    /\ dpc = "write"
    /\ files' = files \cup {OutputName(dmodule, Names[ni])}
    /\ content' = {c \in content : c[1] # OutputName(dmodule, Names[ni])}
                      \cup {<<OutputName(dmodule, Names[ni]), "new">>}
    /\ writes' = Append(writes, Names[ni])
    /\ downloaded' = Append(downloaded, OutputName(dmodule, Names[ni]))
    /\ ni' = ni + 1
    /\ dpc' = "loop"
    /\ UNCHANGED <<dmodule, series_names, overwrite, calls, dres,
                   normVars, retryVars, tidyVars, pivotVars, collectVars, mainVars>>

\* write_bytes raises OSError, turned into DownloadError
DlWriteRaises ==
    /\ dpc = "write"
    /\ dres' = DlRaise("DownloadError")
    /\ dpc' = "done"
    /\ UNCHANGED <<dmodule, series_names, overwrite, ni, files, content, calls, writes,
                   downloaded,
                   normVars, retryVars, tidyVars, pivotVars, collectVars, mainVars>>

\* ecb_data line 207, us_data line 220: return downloaded
DlReturns ==
    /\ dpc = "loop"
    /\ ni > Len(Names)
    /\ dres' = DlReturn
    /\ dpc' = "done"
    /\ UNCHANGED <<dmodule, series_names, overwrite, ni, files, content, calls, writes,
                   downloaded,
                   normVars, retryVars, tidyVars, pivotVars, collectVars, mainVars>>

\* SpecDownload: one call download_series_collection(series_names,
\* output_dir, overwrite=overwrite) with the default `available`
InitDownload ==
    /\ dmodule \in {"ecb_data", "us_data"}
    /\ \E n \in 0..MaxNames : series_names \in [1..n -> RequestedNames]
    /\ overwrite \in BOOLEAN
    /\ ni = 1
    /\ files \in SUBSET OutputFiles(dmodule)
    /\ content = {<<f, "old">> : f \in files}
    /\ calls = <<>>
    /\ writes = <<>>
    /\ downloaded = <<>>
    /\ dpc = "loop"
    /\ dres = [kind |-> "none", exc |-> "None"]
    /\ NormIdle
    /\ RetryIdle
    /\ TidyIdle
    /\ PivotIdle
    /\ CollectIdle
    /\ MainIdle

NextDownload ==
    \/ DlCheckName
    \/ DlRetrieveReturns
    \/ DlRetrieveRaises
    \/ DlWriteBytes
    \/ DlWriteRaises
    \/ DlReturns

SpecDownload == InitDownload /\ [][NextDownload]_vars

-----------------------------------------------------------------------------
(* Properties of download_series_collection *)

\* the positions of `names` that hold a name that is not a key of `available`
UnknownAt == {i \in 1..Len(Names) : \A k \in 1..Len(DefaultNames) : DefaultNames[k] # Names[i]}

\* C20: download_series_collection raises KeyError when it reaches the
\* first requested name that is not in the available mapping; no transport
\* call is made and no file is written for that name or for any name after
\* it, and the lookup is not tried again.
C20_UnknownNameRaisesAtOnce ==
    /\ \A i \in 1..Len(calls) : calls[i] \notin {Names[j] : j \in UnknownAt}
    /\ \A i \in 1..Len(writes) : writes[i] \notin {Names[j] : j \in UnknownAt}
    /\ files \subseteq OutputFiles(dmodule)
    /\ UnknownAt # {} =>
          LET u == CHOOSE i \in UnknownAt : \A j \in UnknownAt : i <= j
          IN  /\ ni <= u
              /\ Len(calls) <= u - 1
              /\ Len(writes) <= u - 1
              /\ dres.kind # "return"
              /\ (dpc = "done" /\ ni = u) => dres = DlRaise("KeyError")
              /\ dres = DlRaise("KeyError") => (dpc = "done" /\ ni = u)

\* the second of two names is unknown: the first was downloaded and written,
\* the call ended with KeyError
C20_Witness ==
    /\ Len(series_names) = 2
    /\ UnknownAt = {2}
    /\ dres = DlRaise("KeyError")
    /\ calls = <<series_names[1]>>
    /\ writes = <<series_names[1]>>


\* the path returned for every name dealt with so far, at that name's position
C21_PathsAtPositions ==
    /\ Len(downloaded) = ni - 1
    /\ \A i \in 1..Len(downloaded) : downloaded[i] = OutputName(dmodule, Names[i])

\* one step of the call, seen from the name the loop is at
C21_Step ==
    LET target == OutputName(dmodule, Names[ni])
    IN  /\ (dpc = "loop" /\ ni \in 1..Len(Names) /\ ni \notin UnknownAt) =>
              IF ~overwrite /\ target \in files
              THEN /\ calls' = calls
                   /\ writes' = writes
                   /\ files' = files
                   /\ content' = content
                   /\ downloaded' = Append(downloaded, target)
                   /\ ni' = ni + 1
                   /\ dpc' = "loop"
              ELSE /\ dpc' = "retrieve"
                   /\ ni' = ni
                   /\ content' = content
        /\ dpc = "retrieve" =>
              /\ calls' = Append(calls, Names[ni])
              /\ content' = content
              /\ dpc' = "write" \/ dres'.kind = "raise"
        /\ dpc = "write" =>
              IF dres'.kind = "raise"
              THEN content' = content /\ ni' = ni
              ELSE /\ writes' = Append(writes, Names[ni])
                   /\ target \in files'
                   /\ <<target, "new">> \in content'
                   /\ <<target, "old">> \notin content'
                   /\ \A c \in content : c[1] # target => c \in content'
                   /\ downloaded' = Append(downloaded, target)
                   /\ ni' = ni + 1

\* C21: with overwrite off, a requested series whose file exists when the
\* loop reaches it gets no transport call, its file keeps its content, and
\* its path is still put in the result at the series' position; in every
\* other case (overwrite on, or no file yet) the series is fetched and, when
\* the fetch and the write succeed, the file holds the new bytes.
C21_ExistingFilesSkipped == []C21_PathsAtPositions /\ [][C21_Step]_vars

\* overwrite is off, the first file was there and the second was not: the
\* call returned both paths, fetched only the second, kept the first file
C21_Witness ==
    /\ ~overwrite
    /\ Len(Names) = 2
    /\ Names[1] # Names[2]
    /\ dres = DlReturn
    /\ calls = <<Names[2]>>
    /\ writes = <<Names[2]>>
    /\ content = {<<OutputName(dmodule, Names[1]), "old">>,
                  <<OutputName(dmodule, Names[2]), "new">>}
    /\ downloaded = <<OutputName(dmodule, Names[1]), OutputName(dmodule, Names[2])>>


-----------------------------------------------------------------------------
(* Properties of the files the script writes *)

\* the number of characters behind the decimal point
Decimals(text) == Len(text) - (CHOOSE i \in 1..Len(text) : text[i] = ".")

IsIsoDate(text) ==
    /\ Len(text) = 10
    /\ text[5] = "-"
    /\ text[8] = "-"
    /\ \A i \in {1, 2, 3, 4, 6, 7, 9, 10} : text[i] \in Digits

\* the precision each kind of artifact is to have
PrescribedDecimals(file) ==
    IF file \in {"out_euribor", "out_fx", "out_fred_rates"} THEN 6 ELSE 4

WrittenAsPrescribed(c) ==
    /\ \A t \in c.floats : t # <<>> => Decimals(t) = PrescribedDecimals(c.file)
    /\ \A t \in c.dates : IsIsoDate(t)

\* C22: every file written holds its floats with the precision of its kind
\* (6 decimals for Euribor, FX and US interest rates; 4 for the HICP
\* aggregate, the two HICP sector pivots and US CPI inflation) and its
\* dates as YYYY-MM-DD.
C22_PrecisionByKind == \A c \in csv : WrittenAsPrescribed(c)

\* the same for the files of the ECB artifacts and the US interest rates, and
\* the dates of every file
C22_AllButUsInflation ==
    \A c \in csv :
        /\ c.file # "out_fred_inflation" => WrittenAsPrescribed(c)
        /\ \A t \in c.dates : IsIsoDate(t) /\ ToDatetime(t) \in {<<d>> : d \in CsvDates}
        /\ c.file = "out_fred_inflation" => <<"1", ".", "5", "0", "0", "0", "0", "0">> \in c.floats


-----------------------------------------------------------------------------
(* Properties of the FRED credential check of the script *)

\* a run that writes a FRED artifact, started without a FRED API key
FredRunWithoutKey ==
    /\ run \in {"all", "fred", "fred_inflation", "fred_rates"}
    /\ fred_env \in {"no_key", "no_fredapi_no_key"}

NothingFetchedOrWritten ==
    /\ mlog = <<>>
    /\ written = {}
    /\ csv = {}
    /\ mpc \in {0, 7}

\* C23 as stated: when the run includes a FRED artifact and no FRED API key
\* is there, the script ends with the credential error (EnvironmentError)
\* before any series is fetched and before any file is written, the ECB
\* artifacts included.
C23_AbortsWithCredentialError ==
    FredRunWithoutKey =>
        /\ NothingFetchedOrWritten
        /\ mpc = 7 => merr = MainRaise(0, "EnvironmentError")

\* C23, amended: when the run includes a FRED artifact and no FRED API key
\* is there, the script ends before any series is fetched and before any
\* file is written, the ECB artifacts included: with the credential error
\* (EnvironmentError) when fredapi is installed, with ImportError when it is
\* not.
C23_AbortsBeforeAnyFetch ==
    FredRunWithoutKey =>
        /\ NothingFetchedOrWritten
        /\ mpc = 7 =>
              merr = MainRaise(0, IF fred_env = "no_key" THEN "EnvironmentError"
                                  ELSE "ImportError")

\* --run all without a key, fredapi installed: the run has ended with the
\* credential error and nothing was fetched or written
C23_Witness ==
    /\ run = "all"
    /\ fred_env = "no_key"
    /\ mpc = 7
    /\ merr = MainRaise(0, "EnvironmentError")
    /\ mlog = <<>>
    /\ written = {}

=============================================================================
